---- MODULE Spec2Model ----
(***************************************************************************)
(* A model of fts.go: the analyzer (tokenize, lowercase, stopword filter,  *)
(* stemmer), the inverted index (add, intersection, search), the gob       *)
(* persistence of the index and the control flow of main.                  *)
(*                                                                         *)
(* Text is a sequence of one-character strings.  A term is such a sequence *)
(* too.  An index is a function from its set of terms to posting lists     *)
(* (sequences of integers).  A nil slice and an empty one are both <<>>,   *)
(* except for the running result of search, where the code tests r == nil. *)
(***************************************************************************)
EXTENDS Integers, Sequences, FiniteSets

\* ------------------------------------------------------------------ bounds
\* The largest number of documents over all add calls (Spec) and in the
\* corpus (SpecMain).
MaxDocs == 3
\* The number of process runs of main that SpecMain follows.
MaxRuns == 2

\* ---------------------------------------------------------------- analyzer
LowerLetters ==
  << "a", "b", "c", "d", "e", "f", "g", "h", "i", "j", "k", "l", "m",
     "n", "o", "p", "q", "r", "s", "t", "u", "v", "w", "x", "y", "z" >>

UpperLetters ==
  << "A", "B", "C", "D", "E", "F", "G", "H", "I", "J", "K", "L", "M",
     "N", "O", "P", "Q", "R", "S", "T", "U", "V", "W", "X", "Y", "Z" >>

Digits == << "0", "1", "2", "3", "4", "5", "6", "7", "8", "9" >>

\* The other characters that occur in texts: all of them delimiters.
Others == << " ", ".", ",", "-" >>

Range(s) == { s[i] : i \in DOMAIN s }

Letters == Range(LowerLetters) \cup Range(UpperLetters)

Numbers == Range(Digits)

Uppers == Range(UpperLetters)

\* unicode.IsLetter and unicode.IsNumber on the characters above.
IsLetter(c) == c \in Letters

IsNumber(c) == c \in Numbers

\* The predicate tokenize hands to strings.FieldsFunc.
isSeparator(c) == ~IsLetter(c) /\ ~IsNumber(c)

\* strings.FieldsFunc: the maximal runs of non-separators, empty runs dropped.
\* cur is the run being read at position i.
RECURSIVE FieldsFunc(_, _, _)
FieldsFunc(text, i, cur) ==
  IF i > Len(text)
    THEN IF cur = << >> THEN << >> ELSE << cur >>
    ELSE IF isSeparator(text[i])
      THEN IF cur = << >>
             THEN FieldsFunc(text, i + 1, << >>)
             ELSE << cur >> \o FieldsFunc(text, i + 1, << >>)
      ELSE FieldsFunc(text, i + 1, Append(cur, text[i]))

tokenize(text) == FieldsFunc(text, 1, << >>)

\* strings.ToLower on one character.
ToLowerChar(c) ==
  IF c \in Uppers
    THEN LowerLetters[CHOOSE i \in DOMAIN UpperLetters : UpperLetters[i] = c]
    ELSE c

ToLower(token) == [ i \in DOMAIN token |-> ToLowerChar(token[i]) ]

lowercaseFilter(tokens) == [ i \in DOMAIN tokens |-> ToLower(tokens[i]) ]

stopwords ==
  { << "a" >>, << "a", "n", "d" >>, << "b", "e" >>, << "h", "a", "v", "e" >>,
    << "i" >>, << "i", "n" >>, << "o", "f" >>, << "t", "h", "a", "t" >>,
    << "t", "h", "e" >>, << "t", "o" >> }

RECURSIVE stopwordFilter(_)
stopwordFilter(tokens) ==
  IF tokens = << >> THEN << >>
  ELSE IF Head(tokens) \in stopwords
    THEN stopwordFilter(Tail(tokens))
    ELSE << Head(tokens) >> \o stopwordFilter(Tail(tokens))

Vowels == { "a", "e", "i", "o", "u", "y" }

\* snowballeng.Stem(token, false) on the words of Texts and Queries: a word
\* of one or two letters is returned as it is, and of the Snowball steps only
\* step 1a applies to these words: a final s (not ss, not us) is deleted when
\* the part before it has a vowel that is not the letter just before the s.
Stem(w) ==
  LET n == Len(w) IN
  IF n <= 2 THEN w
  ELSE IF w[n] = "s" /\ w[n - 1] \notin { "s", "u" }
          /\ \E i \in 1 .. n - 2 : w[i] \in Vowels
    THEN SubSeq(w, 1, n - 1)
    ELSE w

stemmerFilter(tokens) == [ i \in DOMAIN tokens |-> Stem(tokens[i]) ]

\* ------------------------------------------------------------------ inputs
\* The document texts of the model:
\*   "Small cats, wild cat."
\*   "a wild cat, the CAT"
\*   "a"
Texts ==
  { << "S", "m", "a", "l", "l", " ", "c", "a", "t", "s", ",", " ", "w", "i", "l", "d", " ", "c", "a", "t", "." >>,
    << "a", " ", "w", "i", "l", "d", " ", "c", "a", "t", ",", " ", "t", "h", "e", " ", "C", "A", "T" >>,
    << "a" >> }

\* The query texts of the model:
\*   "small wild cat"
\*   "cat small"
\*   "Cats"
\*   "dog cat"
\*   "cat dog"
\*   "the"
Queries ==
  { << "s", "m", "a", "l", "l", " ", "w", "i", "l", "d", " ", "c", "a", "t" >>,
    << "c", "a", "t", " ", "s", "m", "a", "l", "l" >>,
    << "C", "a", "t", "s" >>,
    << "d", "o", "g", " ", "c", "a", "t" >>,
    << "c", "a", "t", " ", "d", "o", "g" >>,
    << "t", "h", "e" >> }

\* The query of main.
MainQuery == << "s", "m", "a", "l", "l", " ", "w", "i", "l", "d", " ", "c", "a", "t" >>

\* The filter chain of analyze.
analyzeChain(text) ==
  stemmerFilter(stopwordFilter(lowercaseFilter(tokenize(text))))

\* analyzeChain over the texts and queries of the model, computed once.
AnalyzeTable == [ text \in Texts \cup Queries |-> analyzeChain(text) ]

analyze(text) == AnalyzeTable[text]

\* ------------------------------------------------------------------- index
\* idx[token] of a Go map: the posting list, or nil when the key is absent.
Get(idx, token) == IF token \in DOMAIN idx THEN idx[token] ELSE << >>

\* idx[token] = ids
Put(idx, token, ids) ==
  [ t \in DOMAIN idx \cup { token } |-> IF t = token THEN ids ELSE idx[t] ]

\* A variant of addToken without the last-id check: every occurrence of a
\* token appends the id.
addTokenNoCheck(idx, token, id) == Put(idx, token, Append(Get(idx, token), id))

\* A variant of addToken that compares the id with the first element of the
\* posting list instead of the last.
addTokenFirst(idx, token, id) ==
  LET ids == Get(idx, token) IN
  IF ids # << >> /\ ids[1] = id
    THEN idx
    ELSE Put(idx, token, Append(ids, id))

\* The body of the inner loop of add for one token of the document id.
addToken(idx, token, id) ==
  LET ids == Get(idx, token) IN
  IF ids # << >> /\ ids[Len(ids)] = id
    THEN idx
    ELSE Put(idx, token, Append(ids, id))

RECURSIVE addTokens(_, _, _)
addTokens(idx, tokens, id) ==
  IF tokens = << >> THEN idx
  ELSE addTokens(addToken(idx, Head(tokens), id), Tail(tokens), id)

\* A variant of add that walks the documents from the last to the first.
RECURSIVE addReversed(_, _)
addReversed(idx, docs) ==
  IF docs = << >> THEN idx
  ELSE addReversed(addTokens(idx, analyze(docs[Len(docs)].Text), docs[Len(docs)].ID),
                   SubSeq(docs, 1, Len(docs) - 1))

RECURSIVE add(_, _)
add(idx, docs) ==
  IF docs = << >> THEN idx
  ELSE add(addTokens(idx, analyze(Head(docs).Text), Head(docs).ID), Tail(docs))

\* The contents of a's backing array after intersection(a, b) returns: r is
\* allocated by make and a is only read.  The variant below stands for the
\* filter-in-place idiom r := a[:0], which writes the result over a.
backingInPlace(a, b) ==
  LET RECURSIVE merge(_, _, _)
      merge(i, j, out) ==
        IF i > Len(a) \/ j > Len(b) THEN out
        ELSE IF a[i] < b[j] THEN merge(i + 1, j, out)
        ELSE IF a[i] > b[j] THEN merge(i, j + 1, out)
        ELSE merge(i + 1, j + 1, Append(out, a[i]))
      res == merge(1, 1, << >>)
  IN res \o SubSeq(a, Len(res) + 1, Len(a))

backingAfter(a, b) == a

\* A variant of intersection that does not advance j when a[i] > b[j] but
\* drops a[i] instead.
RECURSIVE intersectionSkipA(_, _, _, _, _)
intersectionSkipA(a, b, i, j, r) ==
  IF ~(i <= Len(a) /\ j <= Len(b)) THEN r
  ELSE IF a[i] = b[j] THEN intersectionSkipA(a, b, i + 1, j + 1, Append(r, a[i]))
  ELSE intersectionSkipA(a, b, i + 1, j, r)

\* The loop of intersection; i and j are the code's i + 1 and j + 1.
RECURSIVE intersectionLoop(_, _, _, _, _)
intersectionLoop(a, b, i, j, r) ==
  IF ~(i <= Len(a) /\ j <= Len(b)) THEN r
  ELSE IF a[i] < b[j] THEN intersectionLoop(a, b, i + 1, j, r)
  ELSE IF a[i] > b[j] THEN intersectionLoop(a, b, i, j + 1, r)
  ELSE intersectionLoop(a, b, i + 1, j + 1, Append(r, a[i]))

intersection(a, b) == intersectionLoop(a, b, 1, 1, << >>)

\* The running result r of search: nil, or a slice with its elements; alias
\* holds the term whose posting list r shares its backing array with (after
\* r = ids), and is empty once r is a slice of its own.
NilResult == [ nil |-> TRUE, ids |-> << >>, alias |-> { } ]

\* The index after r = intersection(r, ids).
afterIntersection(idx, r, ids) ==
  [ t \in DOMAIN idx |->
      IF t \in r.alias THEN backingAfter(r.ids, ids) ELSE idx[t] ]

\* A variant of searchTokens that skips a token the index does not hold.
RECURSIVE searchTokensSkipAbsent(_, _, _)
searchTokensSkipAbsent(idx, tokens, r) ==
  IF tokens = << >> THEN [ r |-> r, idx |-> idx ]
  ELSE LET token == Head(tokens) IN
    IF token \in DOMAIN idx
      THEN IF r.nil
        THEN searchTokensSkipAbsent(idx, Tail(tokens),
               [ nil |-> FALSE, ids |-> idx[token], alias |-> { token } ])
        ELSE searchTokensSkipAbsent(afterIntersection(idx, r, idx[token]), Tail(tokens),
               [ nil |-> FALSE, ids |-> intersection(r.ids, idx[token]),
                 alias |-> { } ])
      ELSE searchTokensSkipAbsent(idx, Tail(tokens), r)

\* The loop of search over the analysed tokens: the value returned and the
\* index as the call leaves it.
RECURSIVE searchTokens(_, _, _)
searchTokens(idx, tokens, r) ==
  IF tokens = << >> THEN [ r |-> r, idx |-> idx ]
  ELSE LET token == Head(tokens) IN
    IF token \in DOMAIN idx
      THEN IF r.nil
        THEN searchTokens(idx, Tail(tokens),
               [ nil |-> FALSE, ids |-> idx[token], alias |-> { token } ])
        ELSE searchTokens(afterIntersection(idx, r, idx[token]), Tail(tokens),
               [ nil |-> FALSE, ids |-> intersection(r.ids, idx[token]),
                 alias |-> { } ])
      ELSE [ r |-> NilResult, idx |-> idx ]

search(idx, text) == searchTokens(idx, analyze(text), NilResult)

\* ------------------------------------------------------ gob persistence
\* The file is a sequence of numbers.  The byte of a character is its place
\* in AllChars.
AllChars == LowerLetters \o UpperLetters \o Digits \o Others

Ord(c) == CHOOSE i \in DOMAIN AllChars : AllChars[i] = c

Chr(n) == AllChars[n]

\* A variant of encodeEntry that writes the posting list from its last
\* element to its first.
encodeEntryReversed(key, ids) ==
  << Len(key) >> \o [ i \in DOMAIN key |-> Ord(key[i]) ]
    \o << Len(ids) >> \o [ i \in DOMAIN ids |-> ids[Len(ids) + 1 - i] ]

\* One key of the map and its slice: the length of the string and its bytes,
\* the length of the slice and its elements.
encodeEntry(key, ids) ==
  << Len(key) >> \o [ i \in DOMAIN key |-> Ord(key[i]) ] \o << Len(ids) >> \o ids

RECURSIVE encodeEntries(_, _)
encodeEntries(idx, keys) ==
  IF keys = << >> THEN << >>
  ELSE encodeEntry(Head(keys), idx[Head(keys)]) \o encodeEntries(idx, Tail(keys))

\* encoder.Encode(idx) with the map's keys visited in the order keys: the
\* number of entries, then the entries.
encode(idx, keys) == << Len(keys) >> \o encodeEntries(idx, keys)

\* The orders in which a range over the map can visit its keys.
KeyOrders(idx) ==
  { keys \in [ 1 .. Cardinality(DOMAIN idx) -> DOMAIN idx ] :
      \A i, j \in DOMAIN keys : i # j => keys[i] # keys[j] }

\* The loop of the decoder over n entries that start at data[pos]: the
\* entries read in full, and whether the data ended before the last of them.
RECURSIVE decodeEntries(_, _, _, _)
decodeEntries(data, pos, n, entries) ==
  IF n = 0 THEN [ err |-> FALSE, entries |-> entries ]
  ELSE IF pos > Len(data) \/ pos + data[pos] + 1 > Len(data)
    THEN [ err |-> TRUE, entries |-> entries ]
  ELSE LET klen == data[pos]
           key == [ i \in 1 .. klen |-> Chr(data[pos + i]) ]
           cpos == pos + klen + 1
           cnt == data[cpos]
       IN IF cpos + cnt > Len(data)
            THEN [ err |-> TRUE, entries |-> entries ]
            ELSE decodeEntries(data, cpos + cnt + 1, n - 1,
                   Append(entries, [ key |-> key,
                                     ids |-> SubSeq(data, cpos + 1, cpos + cnt) ]))

\* decoder.Decode(&idx) reading data: the entries it read in full and its
\* error.
decode(data) ==
  IF data = << >> THEN [ err |-> TRUE, entries |-> << >> ]
  ELSE decodeEntries(data, 2, data[1], << >>)

\* The first k entries stored into the map the decoder was given.
RECURSIVE putEntries(_, _, _)
putEntries(idx, entries, k) ==
  IF k = 0 THEN idx
  ELSE Put(putEntries(idx, entries, k - 1), entries[k].key, entries[k].ids)

IDs == 0 .. 2

\* type document, with the two fields the index reads.
Documents == [ ID : IDs, Text : Texts ]

SeqsUpTo(S, n) == UNION { [ 1 .. k -> S ] : k \in 1 .. n }

\* ------------------------------------------------------------------- state
VARIABLES
  idx,      \* the index
  calls,    \* Spec: the add calls so far, each the documents it was given
  query,    \* the text of the latest search on this index, << >> when none
  r,        \* the value that search returned, nil when none
  pc,       \* SpecMain: where main is
  file,     \* SpecMain: enwiki.idx, [ exists, data ]
  run,      \* SpecMain: the number of the process run
  corpus,   \* SpecMain: docs, the documents loadDocuments returned
  steps,    \* SpecMain: the steps main went through in this run, in order
  saved     \* SpecMain: the index the last complete Encode wrote

vars == << idx, calls, query, r, pc, file, run, corpus, steps, saved >>

mainVars == << pc, file, run, corpus, steps, saved >>

EmptyIndex == [ t \in { } |-> << >> ]

NoFile == [ exists |-> FALSE, data |-> << >> ]

\* ---------------------------------------------------- Spec: the index alone
Init ==
  /\ idx = EmptyIndex
  /\ calls = << >>
  /\ query = << >>
  /\ r = NilResult
  /\ pc = "lib"
  /\ file = NoFile
  /\ run = 0
  /\ corpus = << >>
  /\ steps = << >>
  /\ saved = EmptyIndex

RECURSIVE Flatten(_)
Flatten(ss) == IF ss = << >> THEN << >> ELSE Head(ss) \o Flatten(Tail(ss))

\* All documents given to add so far, in the order given.
Added == Flatten(calls)

\* idx.add(docs), for any documents: valid or not.  query and r describe the
\* latest search on the index as it is, so a call of add clears them.
Add ==
  \E docs \in SeqsUpTo(Documents, MaxDocs - Len(Added)) :
    /\ idx' = add(idx, docs)
    /\ calls' = Append(calls, docs)
    /\ query' = << >>
    /\ r' = NilResult
    /\ UNCHANGED mainVars

\* r := idx.search(text)
Search ==
  \E text \in Queries :
    LET res == search(idx, text) IN
    /\ idx' = res.idx
    /\ r' = res.r
    /\ query' = text
    /\ UNCHANGED << calls, mainVars >>

Next == Add \/ Search

Spec == Init /\ [][Next]_vars

\* --------------------------------------------------------- SpecMain: main
\* The file is there when main starts, empty, or it is not there.
InitMain ==
  /\ idx = EmptyIndex
  /\ calls = << >>
  /\ query = << >>
  /\ r = NilResult
  /\ pc = "stat"
  /\ file \in { NoFile, [ exists |-> TRUE, data |-> << >> ] }
  /\ run = 1
  /\ corpus = << >>
  /\ steps = << >>
  /\ saved = EmptyIndex

Goto(label, step) ==
  /\ pc' = label
  /\ steps' = Append(steps, step)

\* os.Stat returns no error.
StatExists ==
  /\ pc = "stat"
  /\ file.exists
  /\ Goto("open", "exists")
  /\ UNCHANGED << idx, calls, query, r, file, run, corpus, saved >>

\* os.Stat returns an error that os.IsNotExist takes.
StatNotExist ==
  /\ pc = "stat"
  /\ ~file.exists
  /\ Goto("loadDocuments", "notexist")
  /\ UNCHANGED << idx, calls, query, r, file, run, corpus, saved >>

\* A variant of StatError that logs the error and goes on to the query.
StatErrorContinues ==
  /\ pc = "stat"
  /\ Goto("search", "staterror")
  /\ UNCHANGED << idx, calls, query, r, file, run, corpus, saved >>

\* os.Stat returns another error, whether the file is there or not:
\* log.Fatal ends the process.
StatError ==
  /\ pc = "stat"
  /\ Goto("fatal", "staterror")
  /\ UNCHANGED << idx, calls, query, r, file, run, corpus, saved >>

OpenOK ==
  /\ pc = "open"
  /\ Goto("decode", "open")
  /\ UNCHANGED << idx, calls, query, r, file, run, corpus, saved >>

\* os.Open fails: panic(err).
OpenFail ==
  /\ pc = "open"
  /\ Goto("panic", "openerror")
  /\ UNCHANGED << idx, calls, query, r, file, run, corpus, saved >>

\* decoder.Decode(&idx) returns nil.
DecodeOK ==
  /\ pc = "decode"
  /\ LET res == decode(file.data) IN
       /\ ~res.err
       /\ idx' = putEntries(idx, res.entries, Len(res.entries))
  /\ Goto("search", "decode")
  /\ UNCHANGED << calls, query, r, file, run, corpus, saved >>

\* decoder.Decode(&idx) returns an error, which main drops: idx holds
\* whatever the decoder had stored, any number of the entries it had read.
DecodeError ==
  /\ pc = "decode"
  /\ LET res == decode(file.data) IN
       /\ res.err
       /\ \E k \in 0 .. Len(res.entries) : idx' = putEntries(idx, res.entries, k)
  /\ Goto("search", "decodeerror")
  /\ UNCHANGED << calls, query, r, file, run, corpus, saved >>

\* loadDocuments returns the documents, their ids 0, 1, ... in order.
LoadDocumentsOK ==
  /\ pc = "loadDocuments"
  /\ \E n \in 0 .. MaxDocs : \E texts \in [ 1 .. n -> Texts ] :
       corpus' = [ i \in 1 .. n |-> [ ID |-> i - 1, Text |-> texts[i] ] ]
  /\ Goto("add", "loadDocuments")
  /\ UNCHANGED << idx, calls, query, r, file, run, saved >>

\* loadDocuments returns an error: log.Fatal ends the process.
LoadDocumentsFail ==
  /\ pc = "loadDocuments"
  /\ Goto("fatal", "loaderror")
  /\ UNCHANGED << idx, calls, query, r, file, run, corpus, saved >>

\* idx.add(docs)
AddDocs ==
  /\ pc = "add"
  /\ idx' = add(idx, corpus)
  /\ calls' = Append(calls, corpus)
  /\ Goto("create", "add")
  /\ UNCHANGED << query, r, file, run, corpus, saved >>

\* os.Create makes the file, or empties the one that is there.
CreateOK ==
  /\ pc = "create"
  /\ file' = [ exists |-> TRUE, data |-> << >> ]
  /\ Goto("encode", "create")
  /\ UNCHANGED << idx, calls, query, r, run, corpus, saved >>

\* os.Create fails: panic(err).
CreateFail ==
  /\ pc = "create"
  /\ Goto("panic", "createerror")
  /\ UNCHANGED << idx, calls, query, r, file, run, corpus, saved >>

\* encoder.Encode(idx) returns nil.
EncodeOK ==
  /\ pc = "encode"
  /\ \E keys \in KeyOrders(idx) :
       file' = [ exists |-> TRUE, data |-> encode(idx, keys) ]
  /\ saved' = idx
  /\ Goto("close", "encode")
  /\ UNCHANGED << idx, calls, query, r, run, corpus >>

\* encoder.Encode(idx) fails with a part of the data written: panic(err).
EncodeFail ==
  /\ pc = "encode"
  /\ \E keys \in KeyOrders(idx) :
       LET data == encode(idx, keys) IN
       \E k \in 0 .. Len(data) - 1 :
         file' = [ exists |-> TRUE, data |-> SubSeq(data, 1, k) ]
  /\ Goto("panic", "encodeerror")
  /\ UNCHANGED << idx, calls, query, r, run, corpus, saved >>

\* encodeFile.Close()
Close ==
  /\ pc = "close"
  /\ Goto("search", "close")
  /\ UNCHANGED << idx, calls, query, r, file, run, corpus, saved >>

\* r := idx.search("small wild cat")
SearchMain ==
  /\ pc = "search"
  /\ LET res == search(idx, MainQuery) IN
       /\ idx' = res.idx
       /\ r' = res.r
  /\ query' = MainQuery
  /\ Goto("print", "search")
  /\ UNCHANGED << calls, file, run, corpus, saved >>

\* fmt.Println(r), and main returns.
Println ==
  /\ pc = "print"
  /\ Goto("done", "print")
  /\ UNCHANGED << idx, calls, query, r, file, run, corpus, saved >>

\* The program is started again, with the file as the last run left it.
Restart ==
  /\ pc \in { "done", "panic", "fatal" }
  /\ run < MaxRuns
  /\ run' = run + 1
  /\ idx' = EmptyIndex
  /\ calls' = << >>
  /\ query' = << >>
  /\ r' = NilResult
  /\ corpus' = << >>
  /\ pc' = "stat"
  /\ steps' = << >>
  /\ UNCHANGED << file, saved >>

NextMain ==
  \/ StatExists \/ StatNotExist \/ StatError
  \/ OpenOK \/ OpenFail
  \/ DecodeOK \/ DecodeError
  \/ LoadDocumentsOK \/ LoadDocumentsFail
  \/ AddDocs
  \/ CreateOK \/ CreateFail
  \/ EncodeOK \/ EncodeFail
  \/ Close
  \/ SearchMain
  \/ Println
  \/ Restart

SpecMain == InitMain /\ [][NextMain]_vars

\* ------------------------------------------------- properties of the index
StrictlyIncreasing(s) == \A i \in 1 .. Len(s) - 1 : s[i] < s[i + 1]

PostingsStrictlyIncreasing == \A t \in DOMAIN idx : StrictlyIncreasing(idx[t])

IdsOf(docs) == [ i \in DOMAIN docs |-> docs[i].ID ]

\* The documents came with strictly increasing ids, within and across calls.
ValidHistory == StrictlyIncreasing(IdsOf(Added))

Occurrences(s, x) == Cardinality({ i \in DOMAIN s : s[i] = x })

\* Every term of the model's texts and queries, and every key of the index.
AllTerms ==
  DOMAIN idx \cup UNION { Range(AnalyzeTable[text]) : text \in DOMAIN AnalyzeTable }

cat == << "c", "a", "t" >>
small == << "s", "m", "a", "l", "l" >>
wild == << "w", "i", "l", "d" >>

\* C1: after add calls whose documents come with strictly increasing ids
\* (within and across calls), every posting list is strictly increasing, and
\* so holds no id twice.
C1_PostingsIncreasing == ValidHistory => PostingsStrictlyIncreasing

\* A valid history of three documents in more than one call, with a posting
\* list that holds all three ids.
C1_Witness ==
  /\ ValidHistory
  /\ Len(calls) >= 2
  /\ Len(Added) = 3
  /\ \E t \in DOMAIN idx : Len(idx[t]) = 3

\* C2: after add over documents with strictly increasing ids, the id of a
\* document D is in the posting list of a term t exactly when t occurs in
\* analyze(D.Text), and then exactly once; and a posting list holds no id of
\* a document that was not added.
C2_PostingIffTerm ==
  ValidHistory =>
    /\ \A i \in DOMAIN Added : \A t \in AllTerms :
         Occurrences(Get(idx, t), Added[i].ID)
           = IF t \in Range(analyze(Added[i].Text)) THEN 1 ELSE 0
    /\ \A t \in DOMAIN idx :
         Range(idx[t]) \subseteq Range(IdsOf(Added))

\* A valid history with a document in which cat occurs twice with another
\* term between, one in which it occurs twice in a row, and one without terms.
C2_Witness ==
  /\ ValidHistory
  /\ \E i, j, k \in DOMAIN Added :
       /\ analyze(Added[i].Text) = << small, cat, wild, cat >>
       /\ analyze(Added[j].Text) = << wild, cat, cat >>
       /\ analyze(Added[k].Text) = << >>
  /\ Len(idx[cat]) = 2

\* The ids that the posting list of every term of the list holds, among the
\* ids of the documents added.
Matching(terms) ==
  { id \in Range(IdsOf(Added)) : \A i \in DOMAIN terms : id \in Range(Get(idx, terms[i])) }

IsAscendingListOf(s, S) == StrictlyIncreasing(s) /\ Range(s) = S

\* C3 as stated: for every term list, the empty one too, search returns the
\* ids held by the posting list of every term, ascending and without
\* duplicates.
C3_AllTermLists ==
  (ValidHistory /\ query # << >>) =>
    IsAscendingListOf(r.ids, Matching(analyze(query)))

\* C3: for every term list that is not empty, search returns exactly the ids
\* held by the posting list of every term of the list, ascending and without
\* duplicates; for the empty term list it returns nil.
C3_Intersection ==
  (ValidHistory /\ query # << >>) =>
    IF analyze(query) = << >>
      THEN r = NilResult
      ELSE IsAscendingListOf(r.ids, Matching(analyze(query)))

\* Scenario 4 in small: small is in one document and cat in that one and an
\* earlier one, and the query "small wild cat" returned the one id.
C3_Witness ==
  /\ ValidHistory
  /\ query = MainQuery
  /\ Len(Get(idx, small)) = 1
  /\ Len(Get(idx, cat)) >= 2
  /\ Get(idx, cat)[1] < Get(idx, small)[1]
  /\ r.ids = Get(idx, small)

\* C4: when a term of the analysed query is not in the index, wherever it
\* stands in the query, search returns nil.
C4_AbsentTermNil ==
  (query # << >> /\ \E i \in DOMAIN analyze(query) : analyze(query)[i] \notin DOMAIN idx)
    => r = NilResult

\* The query "cat dog" on an index that holds cat: the absent term comes
\* last, after a term that matched.
C4_Witness ==
  /\ query = << "c", "a", "t", " ", "d", "o", "g" >>
  /\ cat \in DOMAIN idx
  /\ r = NilResult

\* The calls' id ranges: each call strictly increasing inside, and the
\* intervals from the least to the greatest id of two calls never overlap.
CallsIncreasingInside == \A c \in DOMAIN calls : StrictlyIncreasing(IdsOf(calls[c]))

Lo(docs) == docs[1].ID
Hi(docs) == docs[Len(docs)].ID

CallsDisjoint ==
  \A c, d \in DOMAIN calls :
    c # d => (Hi(calls[c]) < Lo(calls[d]) \/ Hi(calls[d]) < Lo(calls[c]))

CallsAscending ==
  \A c \in 1 .. Len(calls) - 1 : Hi(calls[c]) < Lo(calls[c + 1])

\* C9 as stated: after add calls with pairwise disjoint id ranges, each
\* increasing inside, every posting list is strictly increasing.
C9_DisjointRanges ==
  (CallsIncreasingInside /\ CallsDisjoint) => PostingsStrictlyIncreasing

\* C9: after add calls with pairwise disjoint id ranges, each increasing
\* inside and each range above the range of the call before it, every
\* posting list is strictly increasing.
C9_AscendingRanges ==
  (CallsIncreasingInside /\ CallsAscending) => PostingsStrictlyIncreasing

\* Two calls, the second above the first, and a posting list with an id of
\* each.
C9_Witness ==
  /\ Len(calls) = 2
  /\ CallsIncreasingInside
  /\ CallsAscending
  /\ \E t \in DOMAIN idx :
       /\ Hi(calls[1]) \in Range(idx[t])
       /\ Lo(calls[2]) \in Range(idx[t])

\* C10: a search step, whatever the query, leaves the keys of the index and
\* every posting list as they were.
C10_SearchLeavesIndex == [][calls' = calls => idx' = idx]_vars

\* A search of two terms has returned, its result shorter than the posting
\* list of its first term, which the running result shared.
C10_Witness ==
  /\ query = << "c", "a", "t", " ", "s", "m", "a", "l", "l" >>
  /\ ~r.nil
  /\ Len(r.ids) < Len(Get(idx, cat))

\* ---------------------------------------------------- properties of main
Has(step) == \E i \in DOMAIN steps : steps[i] = step

Last(s) == s[Len(s)]

Probes == { "exists", "notexist", "staterror" }

\* C5: an index that Decode read without error from the file equals the
\* index that Encode wrote to it: the same keys, and for every key the same
\* posting list in the same order.
C5_RoundTrip == (steps # << >> /\ Last(steps) = "decode") => idx = saved

\* A later run has decoded an index of three keys with a posting list of
\* more than one id.
C5_Witness ==
  /\ steps # << >>
  /\ Last(steps) = "decode"
  /\ run > 1
  /\ Cardinality(DOMAIN idx) = 3
  /\ \E t \in DOMAIN idx : Len(idx[t]) >= 2

\* C6: when the file cannot be created or the encode fails after add has
\* built the index, the run still goes on to answer the query.
C6_WriteFailureStillAnswers ==
  (Has("add") /\ (Has("createerror") \/ Has("encodeerror")))
    => pc \in { "search", "print", "done" }

C8_NoQueryFromUndecoded ==
  (Has("decodeerror") /\ Has("search")) => Has("add")

====
